---- MODULE Spec2Model ----
(***************************************************************************)
(* Space-switch engine of aleha_tools/spaceswitch.py.                      *)
(*                                                                         *)
(* The host (Maya) scene is modelled by the record `scene`:                *)
(*   time       the current-time cursor                                    *)
(*   attrKeys   per node, the animation curve of the switch attribute      *)
(*              (a function key time -> enum value; empty when unkeyed)    *)
(*   attrCur    per node, the value of the switch attribute "now"          *)
(*   locKeys    per node, the curve of its other keyed channels (the       *)
(*              local transform)                                           *)
(*   locCur     per node, the local transform "now"                        *)
(*   autoKey    the host's auto-keyframe preference                        *)
(*   locked     per node, whether the switch attribute refuses setAttr     *)
(*   isTransform per node, whether cmds.xform can resolve a matrix         *)
(*   enumRaw    per node, the enum declaration of the switch attribute     *)
(*   tempKey    whether cmds.keyframe(plug), called without flags on an    *)
(*              unkeyed plug, leaves a key at the current time             *)
(*   filterFails whether cmds.filterCurve raises                           *)
(*   queryFails whether cmds.keyframe(node, query=True) raises             *)
(*   attrName   the name of the switch attribute the nodes carry           *)
(*   attrKind   per node, what the attribute of that name is on the node   *)
(*   selection  cmds.ls(selection=True)                                    *)
(* A rigid transform is abstracted to one integer; the world matrix of a   *)
(* node is its local transform composed with the offset of the space the   *)
(* switch attribute selects (WorldOf).                                     *)
(***************************************************************************)
EXTENDS Integers, Sequences, FiniteSets, TLC

\* ---------------------------------------------------------------- bounds
MaxTime == 3
MaxRawLen == 4
MaxOrders == 3
MaxSamples == 2
MaxDialogs == 1

Times == 1..MaxTime
Nodes == {"N1", "N2"}
NoXform == <<>>   \* do_xform called with xform=None

VARIABLES
    scene,                 \* the host scene (see above)
    refresh_suspended,     \* cmds.refresh(suspend=...)
    undo_chunk,            \* depth of open undo chunks
    all_frames,            \* widget setting "Apply to all frames"
    euler_filter,          \* widget setting "Auto Euler Filter"
    cb_ids,                \* CallbackManager.ids
    last_selection,        \* widget.last_selection
    show_rotate_order,     \* widget setting "Enable Rotate Order"
    dialogs,               \* the open targets dialogs and the dictionaries they hold
    spaceswitch_enum_dictionary,
    options_and_objects,   \* dispatch table bound to the combobox
    pc,                    \* position inside apply_changes
    enum_attr, enum_value, \* arguments of apply_changes
    targets, enum_index, sorted_targets,
    timeline_selection, current_frames,
    keyframes,             \* result of _collect_keyframes
    temp_keyframes,
    dictionary_xforms,     \* multiple_frames: captured matrices
    current_time,          \* multiple_frames: saved cursor
    fi, ti,                \* loop positions (frame, target)
    raised,                \* which call raised, "no" when none
    calls,                 \* instrumentation: capture/apply calls in order
    pre,                   \* instrumentation: scene when apply began
    percentages, labels,   \* GimbalAnalyzer.classify_percentages in/out
    order_list,            \* compute_all_percentages: the rotation orders
    key_count,             \* compute_all_percentages: len(key_times)
    oi, ki,                \* loop positions (order, key time)
    worst,                 \* worst-case score of the order being scanned
    seen,                  \* instrumentation: scores of that order so far
    reordered,             \* the last reordered rotation
    g,                     \* its gimbal percentage
    raw, cleaned, recleaned \* getEnums label cleaning in/out

hostVars == <<scene, refresh_suspended, undo_chunk>>
widgetVars == <<all_frames, euler_filter, cb_ids, last_selection,
                show_rotate_order, dialogs,
                spaceswitch_enum_dictionary, options_and_objects>>
applyVars == <<pc, enum_attr, enum_value, targets, enum_index, sorted_targets,
               timeline_selection, current_frames, keyframes, temp_keyframes,
               dictionary_xforms, current_time, fi, ti, raised, calls, pre>>
classifyVars == <<percentages, labels>>
cleanVars == <<raw, cleaned, recleaned>>
gimbalVars == <<order_list, key_count, oi, ki, worst, seen, reordered, g>>
vars == <<hostVars, widgetVars, applyVars, classifyVars, cleanVars, gimbalVars>>

\* ------------------------------------------------------------- helpers
Min(S) == CHOOSE x \in S : \A y \in S : x <= y
Max(S) == CHOOSE x \in S : \A y \in S : x >= y
SeqToSet(s) == {s[i] : i \in 1..Len(s)}
Last(s) == s[Len(s)]

RECURSIVE SortedTimesDesc(_)
SortedTimesDesc(S) ==
    IF S = {} THEN <<>>
    ELSE LET m == Max(S) IN <<m>> \o SortedTimesDesc(S \ {m})

\* sorted(all_keys): ascending list of a set of times
RECURSIVE SortedTimes(_)
SortedTimes(S) ==
    IF S = {} THEN <<>>
    ELSE LET m == Min(S) IN <<m>> \o SortedTimes(S \ {m})

\* ------------------------------------------------------------ host scene
\* Value of an animation curve at time t: the key at t, else the nearest
\* earlier key (held), else the first key; the static value when unkeyed.
EvalCurve(keys, t, static) ==
    IF DOMAIN keys = {} THEN static
    ELSE LET earlier == {k \in DOMAIN keys : k <= t}
         IN IF earlier = {} THEN keys[Min(DOMAIN keys)] ELSE keys[Max(earlier)]

\* cmds.getAttr(plug, time=t)
AttrAt(h, n, t) == EvalCurve(h.attrKeys[n], t, h.attrCur[n])
LocAt(h, n, t) == EvalCurve(h.locKeys[n], t, h.locCur[n])

\* World matrix of a node whose switch attribute selects `space` and whose
\* local transform is `loc`: every space re-routes the parent by its own offset.
WorldOf(space, loc) == loc + 10 * space

\* cmds.xform(n, q=True, ws=True, matrix=True) at the current time
World(h, n) == WorldOf(h.attrCur[n], h.locCur[n])
\* the world matrix the scene evaluates to at time t
WorldAt(h, n, t) == WorldOf(AttrAt(h, n, t), LocAt(h, n, t))

\* cmds.keyframe(node, query=True): the key times of every keyed attribute
NodeKeyTimes(h, n) == DOMAIN h.attrKeys[n] \cup DOMAIN h.locKeys[n]

\* cmds.currentTime(t): moves the cursor; animated channels take their curve's
\* value at t, unkeyed channels keep their static value.
HostCurrentTime(h, t) ==
    [h EXCEPT !.time = t,
              !.attrCur = [n \in Nodes |-> AttrAt(h, n, t)],
              !.locCur = [n \in Nodes |-> LocAt(h, n, t)]]

\* Writing value v to a channel at the current time: the value holds now; a
\* key is written only on a channel that already has keys and only when the
\* host's auto-key preference is on.
WriteKeys(h, keys, v) ==
    IF DOMAIN keys # {} /\ h.autoKey
    THEN [t \in DOMAIN keys \cup {h.time} |-> IF t = h.time THEN v ELSE keys[t]]
    ELSE keys

\* cmds.setAttr(node.attr, v)
HostSetAttr(h, n, v) ==
    [h EXCEPT !.attrCur[n] = v,
              !.attrKeys[n] = WriteKeys(h, h.attrKeys[n], v)]

\* cmds.xform(n, ws=True, matrix=w): the local transform that gives world w
\* under the space selected now
HostSetWorld(h, n, w) ==
    LET loc == w - 10 * h.attrCur[n]
    IN [h EXCEPT !.locCur[n] = loc,
                 !.locKeys[n] = WriteKeys(h, h.locKeys[n], loc)]

\* cmds.cutKey(node.attr, time=(t,))
HostCutKey(h, n, t) ==
    [h EXCEPT !.attrKeys[n] = [k \in DOMAIN h.attrKeys[n] \ {t} |-> h.attrKeys[n][k]]]

\* ------------------------------------------------------------- do_xform
\* Result of a call that may raise: the scene it leaves and the error.
Ok(h) == [h |-> h, err |-> "no"]
Raise(h, e) == [h |-> h, err |-> e]

do_xform_noxform(h, target, value, xform) ==
    IF xform = NoXform /\ ~h.isTransform[target] THEN Raise(h, "xform")
    ELSE IF h.locked[target] THEN Raise(h, "setAttr")
    ELSE Ok(HostSetAttr(h, target, value))

\* do_xform(target, enum_attr, enum_value, xform): query the world matrix
\* unless one is given, set the enum, re-apply the matrix.
do_xform(h, target, value, xform) ==
    IF xform = NoXform /\ ~h.isTransform[target] THEN Raise(h, "xform")
    ELSE LET x == IF xform = NoXform THEN World(h, target) ELSE xform[1]
         IN IF h.locked[target] THEN Raise(h, "setAttr")
            ELSE LET h1 == HostSetAttr(h, target, value)
                 IN IF ~h.isTransform[target] THEN Raise(h1, "xform")
                    ELSE Ok(HostSetWorld(h1, target, x))

\* ------------------------------------------------ getEnums: label cleaning
\* A string is a sequence of characters.
Alphabet == {"a", "1", " ", "=", "-", ":"}
\* str.isalnum() on the characters that occur in the declarations modelled:
\* the letters and the digit are alphanumeric, the blank and the punctuation
\* are not
IsAlnum(c) == c \in {"a", "x", "y", "z", "1"}
\* the two option labels the modelled switch attributes declare
LabelA == <<"a">>
LabelB == <<"1">>
RawStrings == UNION {[1..k -> Alphabet] : k \in 0..MaxRawLen}

\* str.split(sep) for a one-character separator
RECURSIVE Split(_, _)
Split(str, sep) ==
    LET hits == {i \in 1..Len(str) : str[i] = sep}
    IN IF hits = {} THEN <<str>>
       ELSE LET i == Min(hits)
            IN <<SubSeq(str, 1, i - 1)>> \o Split(SubSeq(str, i + 1, Len(str)), sep)

\* v.split("=", 1)[0]
CutAtEquals(v) ==
    LET hits == {i \in 1..Len(v) : v[i] = "="}
    IN IF hits = {} THEN v ELSE SubSeq(v, 1, Min(hits) - 1)

\* str.strip()
Strip(v) ==
    LET solid == {i \in 1..Len(v) : v[i] # " "}
    IN IF solid = {} THEN <<>> ELSE SubSeq(v, Min(solid), Max(solid))

clean_label_strip_first(v) == CutAtEquals(Strip(v))

\* label = v.split("=", 1)[0].strip()
clean_label(v) == Strip(CutAtEquals(v))

\* the cleaning loop of getEnums (lines 1039-1043) over a list of labels
CleanLabels(vs) ==
    LET cut == [i \in 1..Len(vs) |-> clean_label(vs[i])]
        Keep(l) == \E i \in 1..Len(l) : IsAlnum(l[i])
    IN SelectSeq(cut, Keep)

\* ----------------------------------------------------- widget: discovery
EnumAttr == "space"
AllEvents == <<"SelectionChanged", "timeChanged", "Undo", "AfterOpen">>

\* _add_callbacks: one listener per host event is appended to the manager
add_callbacks(ids) == ids \o AllEvents
\* _remove_callbacks -> CallbackManager.clear
remove_callbacks(ids) == <<>>

\* cmds.attributeQuery(enum_attr, node=n, listEnum=True)[0]: the enum
\* declaration of the switch attribute, fields separated by ":"
EnumRaw(h, n) == h.enumRaw[n]

\* enum_values_clean: the cleaned labels of node n, in declaration order
NodeEnum(h, n) == CleanLabels(Split(EnumRaw(h, n), ":"))

\* the value the host gives the field declared as `label` on node n: fields
\* are numbered from 0 in declaration order, placeholders included
HostEnumIndex(h, n, label) ==
    LET fields == Split(EnumRaw(h, n), ":")
        hits == {i \in 1..Len(fields) : clean_label(fields[i]) = label}
    IN IF hits = {} THEN -1 ELSE Min(hits) - 1

\* an enum is kept only with at least two distinct meaningful options
IsSwitch(h, n) == Cardinality(SeqToSet(NodeEnum(h, n))) >= 2

\* what the attribute named h.attrName can be on a node: a connected
\* user-defined enum, an enum that is not user-defined, a user-defined
\* attribute of another type, a user-defined enum without any connection
AttrKinds == {"switch", "builtin", "notenum", "unconnected"}

\* orderedAttrs: every user-defined attribute whatever its name
\* (listAttr(ud=True)), and the node's own rotateOrder when the setting asks
\* for it
IsListed(h, n, show) ==
    \/ h.attrKind[n] # "builtin"
    \/ h.attrName = "rotateOrder" /\ show

\* the tests of getEnums on one attribute of one node (lines 1026-1052)
Qualifies(h, n, show) ==
    /\ IsListed(h, n, show)
    /\ h.attrKind[n] # "notenum"
    /\ IsSwitch(h, n)
    /\ h.attrKind[n] # "unconnected"

\* the keys of the dictionary built so far: the attribute names found
DictKeys(dict) == IF dict.objects = <<>> THEN {} ELSE {dict.attr}

\* the loop of getEnums over the selection: an object whose name is a key of
\* the dictionary is passed over; a node whose attribute qualifies is
\* entered with its cleaned labels, its keyed values (or the current one)
\* and its current value
RECURSIVE getEnumsLoop(_, _, _, _)
getEnumsLoop(h, sel, show, dict) ==
    IF sel = <<>> THEN dict
    ELSE LET object == Head(sel)
             entry == [enum |-> NodeEnum(h, object),
                       marked |-> IF DOMAIN h.attrKeys[object] # {}
                                  THEN {h.attrKeys[object][k] : k \in DOMAIN h.attrKeys[object]}
                                  ELSE {h.attrCur[object]},
                       current |-> h.attrCur[object]]
             next == IF object \in DictKeys(dict) \/ ~Qualifies(h, object, show)
                     THEN dict
                     ELSE [attr |-> dict.attr,
                           objects |-> Append(dict.objects, object),
                           info |-> dict.info @@ (object :> entry)]
         IN getEnumsLoop(h, Tail(sel), show, next)

\* getEnums for the selection `sel`: the group of the switch attribute, its
\* objects in the order they were entered
getEnums(h, sel, show) ==
    getEnumsLoop(h, sel, show, [attr |-> h.attrName, objects |-> <<>>, info |-> <<>>])

\* (obj, i, label) in the order refresh enumerates them
RECURSIVE OptionTriples(_, _)
OptionTriples(dict, objs) ==
    IF objs = <<>> THEN <<>>
    ELSE LET o == Head(objs)
             e == dict.info[o].enum
         IN [i \in 1..Len(e) |-> <<o, i - 1, e[i]>>] \o OptionTriples(dict, Tail(objs))

\* refresh: options_and_objects[label] = {"objects": [...], "index": i}
BuildOptions(dict) ==
    LET tr == OptionTriples(dict, dict.objects)
        lbls == {tr[i][3] : i \in 1..Len(tr)}
    IN [o \in lbls |->
          LET Has(x) == x[3] = o
              mine == SelectSeq(tr, Has)
          IN [objects |-> [i \in 1..Len(mine) |-> mine[i][1]],
              index |-> Last(mine)[2]]]

\* cmds.ls(selection=True)
getSelectedObj(h) == h.selection

\* refresh(force): nothing happens unless the selection differs, as a sorted
\* list, from last_selection or force is given; then last_selection is
\* replaced, the layout cleared and, for a non-empty selection, discovery run
\* and the combobox table rebuilt. w holds last_selection, the dictionary and
\* the table.
refresh(h, w, show, force) ==
    LET sel == getSelectedObj(h)
    IN IF ~force /\ SeqToSet(sel) = SeqToSet(w.last_selection)
                /\ Len(sel) = Len(w.last_selection)
       THEN w
       ELSE IF sel = <<>>
       THEN [last_selection |-> sel, dict |-> w.dict, options |-> <<>>,
             built |-> FALSE]
       ELSE LET d == getEnums(h, sel, show)
            IN [last_selection |-> sel, dict |-> d, options |-> BuildOptions(d),
                built |-> TRUE]

\* the widget's discovery state as one record; built tells whether the call
\* assigned a new dictionary
WidgetModel == [last_selection |-> last_selection,
                dict |-> spaceswitch_enum_dictionary,
                options |-> options_and_objects,
                built |-> FALSE]

\* The open targets dialogs. Each holds a reference to the objects dictionary
\* it was opened on: 0 is the dictionary the widget holds now, k > 0 one the
\* widget has replaced since; empty names the replaced ones with no member.
\* sels holds, for each dialog, the selection captured when it was opened,
\* lists the names its list shows (TargetsList.backing_store).
NoDialogs == [refs |-> <<>>, empty |-> {}, sels |-> <<>>, lists |-> <<>>]

\* refresh assigns a new dictionary: the dialogs opened on the old one keep it
dialog_detach(d, dict) ==
    IF 0 \notin SeqToSet(d.refs) THEN d
    ELSE LET k == Min({i \in 1..(MaxDialogs + 1) : i \notin SeqToSet(d.refs)})
         IN [refs |-> [i \in DOMAIN d.refs |-> IF d.refs[i] = 0 THEN k ELSE d.refs[i]],
             empty |-> IF dict.objects = <<>> THEN d.empty \cup {k} ELSE d.empty,
             sels |-> d.sels, lists |-> d.lists]

\* the dialogs left when the i-th closes, its dictionary now empty or not
dialog_remove(d, i, nowEmpty) ==
    LET ref == d.refs[i]
        rest == SubSeq(d.refs, 1, i - 1) \o SubSeq(d.refs, i + 1, Len(d.refs))
        e == IF ref = 0 THEN d.empty
             ELSE IF nowEmpty THEN d.empty \cup {ref} ELSE d.empty \ {ref}
    IN [refs |-> rest, empty |-> e \cap SeqToSet(rest),
        sels |-> SubSeq(d.sels, 1, i - 1) \o SubSeq(d.sels, i + 1, Len(d.sels)),
        lists |-> SubSeq(d.lists, 1, i - 1) \o SubSeq(d.lists, i + 1, Len(d.lists))]

\* ------------------------------------------------------ apply_changes
\* _collect_keyframes: the tuple (targets, [current time]) when neither a
\* timeline selection nor all-frames is asked for, else the dict
\* frame -> targets keyed at that frame, frames ascending, restricted to the
\* timeline selection when one is active.
collect_keyframes(h, tgts, allf, tsel, cframes) ==
    IF ~tsel /\ ~allf
    THEN [kind |-> "tuple", order |-> <<h.time>>, at |-> [f \in {h.time} |-> tgts]]
    ELSE LET all_keys == UNION {NodeKeyTimes(h, tgts[i]) : i \in 1..Len(tgts)}
             kept == IF tsel
                     THEN {f \in all_keys : cframes[1] <= f /\ f <= cframes[2]}
                     ELSE all_keys
         IN [kind |-> "dict",
             order |-> SortedTimes(kept),
             at |-> [f \in kept |->
                       LET Keyed(t) == f \in NodeKeyTimes(h, t)
                       IN SelectSeq(tgts, Keyed)]]

\* sorted(targets, key=lambda x: x.count("|"), reverse=True): a stable sort by
\* DAG depth; short names of uniquely named nodes hold no "|", so the order
\* of the targets is kept
sort_by_depth(tgts) == tgts

\* which branch of apply_changes a collected plan takes: a non-empty dict
\* goes to multiple_frames, a non-empty list to the single-frame loop, and
\* anything else (the tuple of the plain case, an empty dict) to case 3
Dispatch(kf, stargets) ==
    IF stargets = <<>> THEN "filter"
    ELSE IF kf.kind = "dict" /\ kf.order # <<>> THEN "capture"
    ELSE IF kf.kind = "list" /\ kf.order # <<>> THEN "list"
    ELSE "single"

apply_finally_unguarded(err, w) ==
    IF err = "no"
    THEN [suspended |-> FALSE, ids |-> add_callbacks(w.ids), undo |-> w.undo - 1]
    ELSE w

\* the finally block of apply_changes: runs whatever the try block did
apply_finally(err, w) ==
    [suspended |-> FALSE, ids |-> add_callbacks(w.ids), undo |-> w.undo - 1]

\* (target, frame) pairs recorded in temp_keyframes
TempPairs(tk) == UNION {{<<n, tk[n][i]>> : i \in 1..Len(tk[n])} : n \in DOMAIN tk}

CutTempKeysSkipped(h, todo) == h

\* removal of the temporary keys: cmds.cutKey for every recorded pair
RECURSIVE CutTempKeys(_, _)
CutTempKeys(h, todo) ==
    IF todo = {} THEN h
    ELSE LET p == CHOOSE x \in todo : TRUE
         IN CutTempKeys(HostCutKey(h, p[1], p[2]), todo \ {p})

Call(op, frame, node, ok, before, xform) ==
    [op |-> op, frame |-> frame, node |-> node, ok |-> ok,
     before |-> before, xform |-> xform]

all_frames_setting_as_set(attr, allf) == allf

\* all_frames_setting: the widget's flag, forced on for rotateOrder
\* (lines 1289-1295)
all_frames_setting(attr, allf) == IF attr = "rotateOrder" THEN TRUE ELSE allf

\* whether the key query of _collect_keyframes raises: the plain case
\* returns before any query
collect_raises(h, allf, tsel) == h.queryFails /\ (tsel \/ allf)

\* lines 1289-1314 and the entry of the chosen branch. The combobox hands
\* over the label, the attribute name and the table it was built with. The
\* undo chunk is opened, the refresh suspended and the listeners removed
\* before the plan is collected, outside the try block: a raise of the
\* collection leaves apply_changes at once.
ApplyStart(label, tsel, cframes) ==
    /\ label \in DOMAIN options_and_objects
    /\ LET attr == spaceswitch_enum_dictionary.attr
           allf == all_frames_setting(attr, all_frames)
           tg == options_and_objects[label].objects
           kf == collect_keyframes(scene, tg, allf, tsel, cframes)
       IN /\ enum_attr' = attr
          /\ enum_value' = label
          /\ targets' = tg
          /\ enum_index' = options_and_objects[label].index
          /\ IF collect_raises(scene, allf, tsel)
             THEN /\ raised' = "keyframe"
                  /\ pc' = "done"
                  /\ UNCHANGED <<keyframes, sorted_targets>>
             ELSE /\ raised' = "no"
                  /\ keyframes' = kf
                  /\ sorted_targets' = sort_by_depth(tg)
                  /\ pc' = Dispatch(kf, sort_by_depth(tg))
    /\ undo_chunk' = undo_chunk + 1
    /\ refresh_suspended' = TRUE
    /\ cb_ids' = remove_callbacks(cb_ids)
    /\ temp_keyframes' = <<>>
    /\ timeline_selection' = tsel
    /\ current_frames' = cframes
    /\ dictionary_xforms' = [order |-> <<>>, nodes |-> <<>>, xf |-> <<>>]
    /\ current_time' = scene.time
    /\ fi' = 1 /\ ti' = 1
    /\ calls' = <<>>
    /\ pre' = scene
    /\ UNCHANGED <<scene, all_frames, euler_filter, last_selection,
                   show_rotate_order, dialogs,
                   spaceswitch_enum_dictionary, options_and_objects,
                   classifyVars, cleanVars, gimbalVars>>

\* an apply of the widget when the host's undo queue does not end with an
\* earlier one
ApplyBegin(label, tsel, cframes) ==
    /\ pc = "idle"
    /\ ApplyStart(label, tsel, cframes)

\* an apply that follows another one, finished or undone
ApplyAgain(label, tsel, cframes) ==
    /\ pc \in {"done", "undone"}
    /\ ApplyStart(label, tsel, cframes)

applyFrame == <<all_frames, euler_filter, show_rotate_order, enum_attr, enum_value,
                targets, enum_index, sorted_targets, timeline_selection,
                current_frames, keyframes, current_time, pre,
                classifyVars, cleanVars,
                   gimbalVars>>

\* index of the first node of ts whose world matrix cannot be queried, 0 if none
FirstUnresolved(h, ts) ==
    LET bad == {i \in 1..Len(ts) : ~h.isTransform[ts[i]]}
    IN IF bad = {} THEN 0 ELSE Min(bad)

\* multiple_frames, pass A, one frame: move to the frame and store the world
\* matrix of every target planned there (lines 1207-1220)
CaptureStep ==
    /\ pc = "capture"
    /\ LET frame == keyframes.order[fi]
           ts == keyframes.at[frame]
           h1 == HostCurrentTime(scene, frame)
           bad == FirstUnresolved(h1, ts)
           n == IF bad = 0 THEN Len(ts) ELSE bad - 1
           got == {ts[i] : i \in 1..n}
           logged == [i \in 1..n |->
                        Call("capture", frame, ts[i], TRUE, World(h1, ts[i]), <<World(h1, ts[i])>>)]
       IN /\ scene' = h1
          /\ dictionary_xforms' =
                [order |-> Append(dictionary_xforms.order, frame),
                 nodes |-> dictionary_xforms.nodes @@ (frame :> SubSeq(ts, 1, n)),
                 xf |-> dictionary_xforms.xf @@
                        [p \in {<<frame, t>> : t \in got} |-> World(h1, p[2])]]
          /\ IF bad # 0
             THEN /\ calls' = calls \o logged \o
                              <<Call("capture", frame, ts[bad], FALSE, 0, <<>>)>>
                  /\ raised' = "xform"
                  /\ pc' = "finally"
                  /\ fi' = fi
             ELSE /\ calls' = calls \o logged
                  /\ raised' = raised
                  /\ fi' = IF fi = Len(keyframes.order) THEN 1 ELSE fi + 1
                  /\ pc' = IF fi = Len(keyframes.order) THEN "apply" ELSE "capture"
    /\ ti' = 1
    /\ UNCHANGED <<refresh_suspended, undo_chunk, cb_ids, temp_keyframes,
                   spaceswitch_enum_dictionary, options_and_objects, last_selection, dialogs,
                   applyFrame>>

\* multiple_frames, pass B, one (frame, target): move to the frame and
\* do_xform with the stored matrix (lines 1224-1235)
ApplyStep ==
    /\ pc = "apply"
    /\ LET frame == dictionary_xforms.order[fi]
           ts == dictionary_xforms.nodes[frame]
           target == ts[ti]
           xform == <<dictionary_xforms.xf[<<frame, target>>]>>
           h1 == HostCurrentTime(scene, frame)
           r == do_xform(h1, target, enum_index, xform)
           lastT == ti = Len(ts)
           lastF == fi = Len(dictionary_xforms.order)
       IN /\ scene' = r.h
          /\ calls' = Append(calls, Call("apply", frame, target, r.err = "no",
                                         World(h1, target), xform))
          /\ raised' = r.err
          /\ IF r.err # "no"
             THEN pc' = "finally" /\ fi' = fi /\ ti' = ti
             ELSE /\ ti' = IF lastT THEN 1 ELSE ti + 1
                  /\ fi' = IF lastT /\ ~lastF THEN fi + 1 ELSE fi
                  /\ pc' = IF lastT /\ lastF THEN "restore" ELSE "apply"
    /\ UNCHANGED <<refresh_suspended, undo_chunk, cb_ids, temp_keyframes,
                   dictionary_xforms, spaceswitch_enum_dictionary,
                   options_and_objects, last_selection, dialogs,
                   applyFrame>>

\* multiple_frames, after both passes: cmds.currentTime(current_time) (line 1237)
MultipleFramesEnd ==
    /\ pc = "restore"
    /\ scene' = HostCurrentTime(scene, current_time)
    /\ pc' = "filter"
    /\ UNCHANGED <<refresh_suspended, undo_chunk, cb_ids, temp_keyframes,
                   dictionary_xforms, spaceswitch_enum_dictionary,
                   options_and_objects, fi, ti, raised, calls, last_selection, dialogs,
                   applyFrame>>

\* cmds.keyframe(attr_plug) on a plug without keys (line 1337): the call
\* names no edit flag; the host either edits nothing or leaves a key holding
\* the current value at the current time
keyframe_edit(h, target) ==
    IF h.tempKey
    THEN [h EXCEPT !.attrKeys[target] = (h.time :> h.attrCur[target])]
    ELSE h

SingleStepTwoPass ==
    /\ pc = "single"
    /\ LET target == sorted_targets[ti]
           existing_keys == Cardinality(DOMAIN scene.attrKeys[target])
           h1 == IF existing_keys = 0 THEN keyframe_edit(scene, target) ELSE scene
           r == do_xform(h1, target, enum_index, <<World(pre, target)>>)
       IN /\ temp_keyframes' =
                IF existing_keys # 0 THEN temp_keyframes
                ELSE IF target \in DOMAIN temp_keyframes
                THEN [temp_keyframes EXCEPT ![target] = Append(@, scene.time)]
                ELSE temp_keyframes @@ (target :> <<scene.time>>)
          /\ scene' = r.h
          /\ calls' = Append(calls, Call("apply", h1.time, target, r.err = "no",
                                         World(pre, target), <<World(pre, target)>>))
          /\ raised' = r.err
          /\ IF r.err # "no"
             THEN pc' = "finally" /\ ti' = ti
             ELSE /\ ti' = IF ti = Len(sorted_targets) THEN 1 ELSE ti + 1
                  /\ pc' = IF ti = Len(sorted_targets) THEN "filter" ELSE "single"
    /\ UNCHANGED <<refresh_suspended, undo_chunk, cb_ids, dictionary_xforms,
                   spaceswitch_enum_dictionary, options_and_objects, fi, last_selection, dialogs,
                   applyFrame>>

\* Case 3, one target: record a temporary key when the attribute has no key,
\* then do_xform at the current time (lines 1330-1339)
SingleStep ==
    /\ pc = "single"
    /\ LET target == sorted_targets[ti]
           existing_keys == Cardinality(DOMAIN scene.attrKeys[target])
           h1 == IF existing_keys = 0 THEN keyframe_edit(scene, target) ELSE scene
           r == do_xform(h1, target, enum_index, NoXform)
       IN /\ temp_keyframes' =
                IF existing_keys # 0 THEN temp_keyframes
                ELSE IF target \in DOMAIN temp_keyframes
                THEN [temp_keyframes EXCEPT ![target] = Append(@, scene.time)]
                ELSE temp_keyframes @@ (target :> <<scene.time>>)
          /\ scene' = r.h
          /\ calls' = IF ~h1.isTransform[target]
                      THEN Append(calls, Call("capture", h1.time, target, FALSE, 0, <<>>))
                      ELSE calls \o
                           << Call("capture", h1.time, target, TRUE,
                                   World(h1, target), <<World(h1, target)>>),
                              Call("apply", h1.time, target, r.err = "no",
                                   World(h1, target), NoXform) >>
          /\ raised' = r.err
          /\ IF r.err # "no"
             THEN pc' = "finally" /\ ti' = ti
             ELSE /\ ti' = IF ti = Len(sorted_targets) THEN 1 ELSE ti + 1
                  /\ pc' = IF ti = Len(sorted_targets) THEN "filter" ELSE "single"
    /\ UNCHANGED <<refresh_suspended, undo_chunk, cb_ids, dictionary_xforms,
                   spaceswitch_enum_dictionary, options_and_objects, fi, last_selection, dialogs,
                   applyFrame>>

\* apply_euler_filter: collects the rotation curves of the targets and hands
\* them to cmds.filterCurve, which rewrites them to an equal orientation (no
\* modelled value changes) or raises
apply_euler_filter(h, tgts) ==
    IF h.filterFails THEN Raise(h, "filterCurve") ELSE Ok(h)

\* lines 1341-1342: the filter runs inside the try block when the setting is on
FilterStep ==
    /\ pc = "filter"
    /\ LET r == IF euler_filter THEN apply_euler_filter(scene, sorted_targets)
                ELSE Ok(scene)
       IN /\ scene' = r.h
          /\ raised' = r.err
    /\ pc' = "finally"
    /\ UNCHANGED <<refresh_suspended, undo_chunk, widgetVars, enum_attr,
                   enum_value, targets, enum_index, sorted_targets,
                   timeline_selection, current_frames, keyframes, temp_keyframes,
                   dictionary_xforms, current_time, fi, ti, calls, pre,
                   classifyVars, cleanVars,
                   gimbalVars>>

\* the finally block (lines 1344-1355): refresh resumed, temporary keys cut,
\* listeners added, discovery re-run, undo chunk closed
FinallyStep ==
    /\ pc = "finally"
    /\ LET w == apply_finally(raised, [suspended |-> refresh_suspended,
                                       ids |-> cb_ids, undo |-> undo_chunk])
           h1 == CutTempKeys(scene, TempPairs(temp_keyframes))
           m == refresh(h1, WidgetModel, show_rotate_order, TRUE)
       IN /\ scene' = h1
          /\ refresh_suspended' = w.suspended
          /\ cb_ids' = w.ids
          /\ undo_chunk' = w.undo
          /\ last_selection' = m.last_selection
          /\ spaceswitch_enum_dictionary' = m.dict
          /\ options_and_objects' = m.options
          /\ dialogs' = IF m.built
                        THEN dialog_detach(dialogs, spaceswitch_enum_dictionary)
                        ELSE dialogs
    /\ pc' = "done"
    /\ UNCHANGED <<temp_keyframes, dictionary_xforms, fi, ti, raised, calls,
                   applyFrame>>

\* ------------------------------------------------------------- scenes
\* Key layouts of one node: (key times of the switch attribute, key times of
\* the transform channels)
KeyConfigs ==
    { <<{}, {}>>,                          \* nothing keyed
      <<{}, Times>>,                       \* only the transform is keyed
      <<{1, MaxTime}, {1, MaxTime}>>,      \* switch and transform keyed together
      <<{2}, {}>>,                         \* only the switch is keyed
      <<Times, Times>> }                   \* keyed on every frame

\* What can go wrong on the host side: nothing, cmds.filterCurve raising,
\* the key query of _collect_keyframes raising, a
\* locked switch attribute (setAttr raises) or a node without transform
\* (xform raises)
Faults == {<<"none", "N1">>, <<"filter", "N1">>, <<"query", "N1">>}
          \cup {<<f, n>> : f \in {"locked", "notransform"}, n \in Nodes}

\* timeline selections the user can have made (cmds.timeControl ra)
Intervals == {<<1, 1>>, <<2, MaxTime>>}

\* enum declarations of the switch attribute on the two nodes: the same
\* options in the same order, in another order, with a placeholder entry
\* between them, and a node whose enum has one meaningful option only
EnumLayouts ==
    { <<LabelA \o <<":">> \o LabelB, LabelA \o <<":">> \o LabelB>>,
      <<LabelA \o <<":">> \o LabelB, LabelB \o <<":">> \o LabelA>>,
      <<LabelA \o <<":">> \o LabelB, LabelA \o <<":", "-", ":">> \o LabelB>>,
      <<LabelA \o <<":">> \o LabelB, LabelA \o <<":", "-">>>> }

EnumOf(layout) == [n \in Nodes |-> IF n = "N1" THEN layout[1] ELSE layout[2]]

InitScene(cfg, fault, t0, ak, layout, tk) ==
    HostCurrentTime(
        [time |-> t0,
         enumRaw |-> EnumOf(layout),
         tempKey |-> tk,
         filterFails |-> fault = <<"filter", "N1">>,
         queryFails |-> fault = <<"query", "N1">>,
         attrName |-> EnumAttr,
         attrKind |-> [n \in Nodes |-> "switch"],
         selection |-> <<"N1", "N2">>,
         attrKeys |-> [n \in Nodes |-> [k \in cfg[n][1] |-> 0]],
         attrCur |-> [n \in Nodes |-> 0],
         locKeys |-> [n \in Nodes |-> [k \in cfg[n][2] |-> k]],
         locCur |-> [n \in Nodes |-> 0],
         autoKey |-> ak,
         locked |-> [n \in Nodes |-> fault = <<"locked", n>>],
         isTransform |-> [n \in Nodes |-> fault # <<"notransform", n>>]],
        t0)

ApplyParked ==
    /\ enum_attr = ""
    /\ enum_value = <<>> /\ targets = <<>> /\ enum_index = 0 /\ sorted_targets = <<>>
    /\ timeline_selection = FALSE /\ current_frames = <<1, 1>>
    /\ keyframes = [kind |-> "tuple", order |-> <<>>, at |-> <<>>]
    /\ temp_keyframes = <<>>
    /\ dictionary_xforms = [order |-> <<>>, nodes |-> <<>>, xf |-> <<>>]
    /\ current_time = 1 /\ fi = 1 /\ ti = 1
    /\ raised = "no" /\ calls = <<>>

ClassifyParked == percentages = <<>> /\ labels = <<>>
CleanParked == raw = <<>> /\ cleaned = <<>> /\ recleaned = <<>>
GimbalParked ==
    /\ order_list = <<>> /\ key_count = 1 /\ oi = 1 /\ ki = 1
    /\ worst = 0 /\ seen = <<>> /\ g = 0
    /\ reordered = [x |-> 0, y |-> 0, z |-> 0, order |-> "xyz", from |-> "xyz"]

\* the widget after __init__: listeners added once, discovery run on the selection
WidgetInit(h, show) ==
    /\ cb_ids = add_callbacks(<<>>)
    /\ dialogs = NoDialogs
    /\ show_rotate_order = show
    /\ LET blank == [last_selection |-> <<>>,
                     dict |-> [attr |-> h.attrName, objects |-> <<>>, info |-> <<>>],
                     options |-> <<>>, built |-> FALSE]
           m == refresh(h, blank, show, FALSE)
       IN /\ last_selection = m.last_selection
          /\ spaceswitch_enum_dictionary = m.dict
          /\ options_and_objects = m.options
    /\ refresh_suspended = FALSE
    /\ undo_chunk = 0

Init ==
    /\ \E cfg \in [Nodes -> KeyConfigs], fault \in Faults, t0 \in Times,
          ak \in BOOLEAN, layout \in EnumLayouts, tk \in BOOLEAN :
          scene = InitScene(cfg, fault, t0, ak, layout, tk)
    /\ all_frames \in BOOLEAN
    /\ euler_filter \in BOOLEAN
    /\ scene.filterFails \/ euler_filter
    /\ WidgetInit(scene, TRUE)
    /\ pre = scene
    /\ pc = "idle"
    /\ ApplyParked
    /\ ClassifyParked
    /\ CleanParked
    /\ GimbalParked

Next ==
    \/ \E label \in {LabelA, LabelB}, tsel \in BOOLEAN, cframes \in Intervals :
          ApplyBegin(label, tsel, cframes)
    \/ CaptureStep
    \/ ApplyStep
    \/ MultipleFramesEnd
    \/ SingleStep
    \/ FilterStep
    \/ FinallyStep

Spec == Init /\ [][Next]_vars

\* ------------------------------------------------- the targets dialog
\* orders the dialog's list can hold when it closes: members removed, nodes
\* of the scene added at the end, no name twice
RECURSIVE NoRepeat(_)
NoRepeat(seq) ==
    IF seq = <<>> THEN TRUE
    ELSE Head(seq) \notin SeqToSet(Tail(seq)) /\ NoRepeat(Tail(seq))

DialogOrders == {seq \in UNION {[1..k -> Nodes] : k \in 0..Cardinality(Nodes)} : NoRepeat(seq)}

\* SetupTargetsDialog.closeEvent: the group's objects become the list's
\* order; a kept member keeps its entry, an added node gets the entry of the
\* first former member
dialog_close(dict, new_order) ==
    [attr |-> dict.attr,
     objects |-> new_order,
     info |-> [t \in SeqToSet(new_order) |->
                 IF t \in DOMAIN dict.info THEN dict.info[t]
                 ELSE dict.info[dict.objects[1]]]]

\* a host event the widget listens to with refresh (SelectionChanged,
\* timeChanged, Undo): refresh() runs, not forced, if the listener is registered
on_event(event, h, w, show, ids) ==
    IF event \in SeqToSet(ids) THEN refresh(h, w, show, FALSE) ELSE w

\* the widget is shown and no apply is running: no apply has run yet, the
\* last one has returned, was undone, or has been followed by a command
\* that took its place at the end of the host's undo queue
Idle == pc \in {"idle", "done", "undone"}

\* the widget has been closed and deleted; the host goes on, and the chunk
\* of the widget's last apply may still be the last entry of the undo queue
Closed == pc \in {"closed", "closed_done"}

\* what no action of the user interface touches
uiFrame == <<refresh_suspended, undo_chunk, classifyVars, cleanVars, gimbalVars>>
settingVars == <<all_frames, euler_filter, show_rotate_order>>
applyLocals == <<enum_attr, enum_value, targets, enum_index, sorted_targets,
                 timeline_selection, current_frames, keyframes, temp_keyframes,
                 dictionary_xforms, current_time, fi, ti, raised, calls>>

\* the locals of the last apply_changes are gone and the host's undo queue
\* no longer ends with the chunk of that apply; the scene is h
Parking(h) ==
    /\ pre' = h
    /\ enum_attr' = ""
    /\ enum_value' = <<>> /\ targets' = <<>> /\ enum_index' = 0 /\ sorted_targets' = <<>>
    /\ timeline_selection' = FALSE /\ current_frames' = <<1, 1>>
    /\ keyframes' = [kind |-> "tuple", order |-> <<>>, at |-> <<>>]
    /\ temp_keyframes' = <<>>
    /\ dictionary_xforms' = [order |-> <<>>, nodes |-> <<>>, xf |-> <<>>]
    /\ current_time' = 1 /\ fi' = 1 /\ ti' = 1
    /\ raised' = "no" /\ calls' = <<>>

\* after an undoable host command on scene h: a shown widget waits for an
\* apply, a closed one stays closed, and no apply chunk ends the undo queue
Waiting(h) ==
    /\ pc' = IF Closed THEN "closed" ELSE "idle"
    /\ Parking(h)

\* the position of the widget stays what it is, the scene becomes h
Staying(h) ==
    /\ pc' = pc
    /\ pre' = IF pc \in {"idle", "closed"} THEN h ELSE pre
    /\ UNCHANGED applyLocals

\* the widget's discovery state becomes m, the outcome of a refresh; the
\* open dialogs d keep the dictionary `old` when the refresh replaced it
Discover(m, d, old) ==
    /\ last_selection' = m.last_selection
    /\ spaceswitch_enum_dictionary' = m.dict
    /\ options_and_objects' = m.options
    /\ dialogs' = IF m.built THEN dialog_detach(d, old) ELSE d

\* _show_change_target_dialog, from the label of the combobox row: the
\* selection is captured, the listeners are removed and a dialog shown on
\* the widget's dictionary, its list filled with the members; the dialog is
\* not modal, the widget and the host stay usable while it is open
DialogOpen ==
    /\ Idle
    /\ Len(dialogs.refs) < MaxDialogs
    /\ options_and_objects # <<>>
    /\ cb_ids' = remove_callbacks(cb_ids)
    /\ dialogs' = [dialogs EXCEPT !.refs = Append(@, 0),
                                  !.sels = Append(@, getSelectedObj(scene)),
                                  !.lists = Append(@, spaceswitch_enum_dictionary.objects)]
    /\ Staying(scene)
    /\ UNCHANGED <<scene, last_selection, spaceswitch_enum_dictionary,
                   options_and_objects, settingVars, uiFrame>>

\* TargetsList.add_target over a list of names: a name the list already has
\* is passed over
RECURSIVE add_targets(_, _)
add_targets(store, names) ==
    IF names = <<>> THEN store
    ELSE add_targets(IF Head(names) \in SeqToSet(store) THEN store
                     ELSE Append(store, Head(names)),
                     Tail(names))

\* the Add button of the i-th dialog (_add_target): every selected node is
\* added to the list
DialogAddTarget(i) ==
    /\ Idle
    /\ i \in DOMAIN dialogs.refs
    /\ add_targets(dialogs.lists[i], getSelectedObj(scene)) # dialogs.lists[i]
    /\ dialogs' = [dialogs EXCEPT
                      !.lists[i] = add_targets(@, getSelectedObj(scene))]
    /\ Staying(scene)
    /\ UNCHANGED <<scene, cb_ids, last_selection, spaceswitch_enum_dictionary,
                   options_and_objects, settingVars, uiFrame>>

\* the remove button of a row of the i-th dialog (TargetsList.remove_target)
DialogRemoveTarget(i, name) ==
    /\ Idle
    /\ i \in DOMAIN dialogs.refs
    /\ name \in SeqToSet(dialogs.lists[i])
    /\ dialogs' = [dialogs EXCEPT
                      !.lists[i] = SelectSeq(@, LAMBDA x : x # name)]
    /\ Staying(scene)
    /\ UNCHANGED <<scene, cb_ids, last_selection, spaceswitch_enum_dictionary,
                   options_and_objects, settingVars, uiFrame>>

\* closeEvent and on_close of the i-th dialog: its dictionary is rewritten in
\* place to the names of its list; cmds.select puts back the selection
\* captured at the opening, and the host's SelectionChanged event runs
\* refresh if a listener is registered at that moment (an apply has added
\* them since the opening); then the listeners are added. When the
\* dictionary is empty and the list is not, closeEvent raises before it
\* changes anything.
DialogClose(i) ==
    /\ Idle
    /\ i \in DOMAIN dialogs.refs
    /\ LET ref == dialogs.refs[i]
           new_order == dialogs.lists[i]
           held_empty == IF ref = 0 THEN spaceswitch_enum_dictionary.objects = <<>>
                         ELSE ref \in dialogs.empty
           rewritten == IF ref = 0
                        THEN dialog_close(spaceswitch_enum_dictionary, new_order)
                        ELSE spaceswitch_enum_dictionary
           h1 == [scene EXCEPT !.selection = dialogs.sels[i]]
           m == on_event("SelectionChanged", h1,
                         [WidgetModel EXCEPT !.dict = rewritten],
                         show_rotate_order, cb_ids)
       IN IF new_order # <<>> /\ held_empty
          THEN /\ dialogs' = dialog_remove(dialogs, i, TRUE)
               /\ Staying(scene)
               /\ UNCHANGED <<scene, last_selection, spaceswitch_enum_dictionary,
                              options_and_objects, cb_ids>>
          ELSE /\ scene' = h1
               /\ Discover(m, dialog_remove(dialogs, i, new_order = <<>>), rewritten)
               /\ cb_ids' = add_callbacks(cb_ids)
               /\ Waiting(h1)
    /\ UNCHANGED <<settingVars, uiFrame>>

\* the host has opened the scene again: nothing is selected in an opened
\* scene and the undo queue is empty, the selection listener runs refresh,
\* and _refresh_callbacks, when its listener is registered, removes the
\* widget's listeners and adds them again
AfterOpen ==
    /\ Idle \/ Closed
    /\ LET h1 == [scene EXCEPT !.selection = <<>>]
           m == on_event("SelectionChanged", h1, WidgetModel, show_rotate_order, cb_ids)
       IN /\ scene' = h1
          /\ Discover(m, dialogs, spaceswitch_enum_dictionary)
          /\ Waiting(h1)
    /\ cb_ids' = IF "AfterOpen" \in SeqToSet(cb_ids)
                 THEN add_callbacks(remove_callbacks(cb_ids))
                 ELSE cb_ids
    /\ UNCHANGED <<settingVars, uiFrame>>

\* SpaceSwitchAlehaWidget.closeEvent: every listener is removed and the
\* widget deleted; its open dialogs, children of the widget, are destroyed
\* with it and their closeEvent does not run. The host's undo queue is not
\* touched: an apply that was its last entry still is. The "Install"
\* answer of check_for_updates does the same to the widget (_cb.clear(),
\* deleteLater()) without closeEvent.
WidgetClose ==
    /\ Idle
    /\ cb_ids' = remove_callbacks(cb_ids)
    /\ dialogs' = NoDialogs
    /\ IF pc = "done"
       THEN pc' = "closed_done" /\ UNCHANGED <<pre, applyLocals>>
       ELSE pc' = "closed" /\ Parking(scene)
    /\ UNCHANGED <<scene, last_selection, spaceswitch_enum_dictionary,
                   options_and_objects, settingVars, uiFrame>>

\* SpaceSwitchManager._launch (show, popup): an instance that is still
\* valid has its listeners cleared and is closed, then a new widget is
\* constructed: it reads the stored settings, adds its listeners and runs
\* refresh() on the selection from an empty last_selection. An apply of the
\* former widget that ends the host's undo queue can still be undone.
Launch ==
    /\ Idle \/ Closed
    /\ cb_ids' = add_callbacks(<<>>)
    /\ LET blank == [last_selection |-> <<>>,
                     dict |-> [attr |-> scene.attrName, objects |-> <<>>, info |-> <<>>],
                     options |-> <<>>, built |-> FALSE]
           m == refresh(scene, blank, show_rotate_order, FALSE)
       IN Discover(m, NoDialogs, spaceswitch_enum_dictionary)
    /\ IF pc \in {"done", "closed_done"}
       THEN pc' = "done" /\ UNCHANGED <<pre, applyLocals>>
       ELSE pc' = "idle" /\ Parking(scene)
    /\ UNCHANGED <<scene, settingVars, uiFrame>>

\* --------------------------------------- selection, time, undo, settings
Selections == DialogOrders

\* the user selects: the host fires SelectionChanged and the listener, when
\* registered, runs refresh(); the selection is the host's last undoable
\* command
SelectionChanged(newsel) ==
    /\ Idle \/ Closed
    /\ newsel # scene.selection
    /\ LET h1 == [scene EXCEPT !.selection = newsel]
           m == on_event("SelectionChanged", h1, WidgetModel, show_rotate_order, cb_ids)
       IN /\ scene' = h1
          /\ Discover(m, dialogs, spaceswitch_enum_dictionary)
          /\ Waiting(h1)
    /\ UNCHANGED <<cb_ids, settingVars, uiFrame>>

\* the user moves the time slider: the host evaluates the scene at t and
\* fires timeChanged, whose listener, when registered, runs refresh(); a
\* time change is not an undoable command
TimeChanged(t) ==
    /\ Idle \/ Closed
    /\ t # scene.time
    /\ LET h1 == HostCurrentTime(scene, t)
           m == on_event("timeChanged", h1, WidgetModel, show_rotate_order, cb_ids)
       IN /\ scene' = h1
          /\ Discover(m, dialogs, spaceswitch_enum_dictionary)
          /\ Staying(h1)
    /\ UNCHANGED <<cb_ids, settingVars, uiFrame>>

\* the host undoes the chunk of the last apply: keys and values are those
\* from before the apply, evaluated at the time the scene is at
host_undo(h, before) ==
    HostCurrentTime([h EXCEPT !.attrKeys = before.attrKeys,
                              !.locKeys = before.locKeys,
                              !.attrCur = before.attrCur,
                              !.locCur = before.locCur], h.time)

\* the user undoes the apply: the host fires Undo and the listener, when
\* registered, runs refresh(); a closed widget has no listener
Undo ==
    /\ pc \in {"done", "closed_done"}
    /\ undo_chunk = 0
    /\ LET h1 == host_undo(scene, pre)
           m == on_event("Undo", h1, WidgetModel, show_rotate_order, cb_ids)
       IN /\ scene' = h1
          /\ Discover(m, dialogs, spaceswitch_enum_dictionary)
    /\ pc' = IF pc = "done" THEN "undone" ELSE "closed"
    /\ UNCHANGED <<cb_ids, pre, applyLocals, settingVars, uiFrame>>

\* the checkable entries of the context menu
Settings == {"namespace_display", "show_rotate_order", "euler_filter", "all_frames"}

\* set_setting from a toggle of the context menu: the setting takes the
\* other value, and the two display settings go on to refresh(force=True).
\* namespace_display itself only changes how names are shown.
SetSetting(setting) ==
    /\ Idle
    /\ show_rotate_order' = IF setting = "show_rotate_order"
                            THEN ~show_rotate_order ELSE show_rotate_order
    /\ euler_filter' = IF setting = "euler_filter" THEN ~euler_filter ELSE euler_filter
    /\ all_frames' = IF setting = "all_frames" THEN ~all_frames ELSE all_frames
    /\ LET m == IF setting \in {"namespace_display", "show_rotate_order"}
                THEN refresh(scene, WidgetModel, show_rotate_order', TRUE)
                ELSE WidgetModel
       IN Discover(m, dialogs, spaceswitch_enum_dictionary)
    /\ Staying(scene)
    /\ UNCHANGED <<scene, cb_ids, uiFrame>>

\* the widget, its settings at their defaults (instance_settings), on
\* scenes where no host call raises: the switch attribute is a user
\* attribute or the nodes' own rotateOrder, nothing is keyed or the nodes are
\* keyed at the first and the last time
InitWidget ==
    /\ \E ks \in {<<{}, {}>>, <<{1, MaxTime}, {1, MaxTime}>>},
          name \in {EnumAttr, "rotateOrder"} :
          scene = [InitScene([n \in Nodes |-> ks], <<"none", "N1">>, 1, TRUE,
                             <<LabelA \o <<":">> \o LabelB, LabelA \o <<":">> \o LabelB>>,
                             FALSE)
                      EXCEPT !.attrName = name,
                             !.attrKind = [n \in Nodes |->
                                 IF name = "rotateOrder" THEN "builtin" ELSE "switch"]]
    /\ all_frames = FALSE
    /\ euler_filter = TRUE
    /\ WidgetInit(scene, TRUE)
    /\ pre = scene
    /\ pc = "idle"
    /\ ApplyParked
    /\ ClassifyParked
    /\ CleanParked
    /\ GimbalParked

NextWidget ==
    \/ Next
    \/ \E label \in {LabelA, LabelB}, tsel \in BOOLEAN, cframes \in Intervals :
          ApplyAgain(label, tsel, cframes)
    \/ \E newsel \in Selections : SelectionChanged(newsel)
    \/ Undo
    \/ \E setting \in Settings : SetSetting(setting)

SpecWidget == InitWidget /\ [][NextWidget]_vars

\* the selections the user makes while targets dialogs are in use
TargetSelections == {<<>>, <<"N1">>, <<"N1", "N2">>}

\* the widget with its targets dialogs on the scene with N1 and N2
\* selected, both declaring 'a:1', nothing keyed; applies are made without
\* timeline selection and with the all-frames setting off
InitTargets ==
    /\ Init
    /\ scene.time = 1 /\ scene.autoKey /\ ~scene.tempKey /\ ~scene.filterFails
    /\ ~scene.queryFails
    /\ scene.attrKeys["N1"] = scene.attrKeys["N2"]
    /\ scene.locKeys["N1"] = scene.locKeys["N2"]
    /\ \A n \in Nodes : ~scene.locked[n] /\ scene.isTransform[n]
    /\ ~all_frames
    /\ scene.enumRaw["N2"] = LabelA \o <<":">> \o LabelB
    /\ DOMAIN scene.attrKeys["N1"] = {} /\ DOMAIN scene.locKeys["N1"] = {}

NextTargets ==
    \/ \E label \in {LabelA, LabelB} : ApplyBegin(label, FALSE, <<1, 1>>)
    \/ \E label \in {LabelA, LabelB} : ApplyAgain(label, FALSE, <<1, 1>>)
    \/ SingleStep
    \/ FilterStep
    \/ FinallyStep
    \/ \E newsel \in TargetSelections : SelectionChanged(newsel)
    \/ \E t \in Times : TimeChanged(t)
    \/ DialogOpen
    \/ \E i \in 1..MaxDialogs : DialogAddTarget(i)
    \/ \E i \in 1..MaxDialogs, name \in Nodes : DialogRemoveTarget(i, name)
    \/ \E i \in 1..MaxDialogs : DialogClose(i)
    \/ AfterOpen
    \/ WidgetClose
    \/ Launch
    \/ Undo

SpecTargets == InitTargets /\ [][NextTargets]_vars

\* ------------------------------------------------------- discovery
\* enum declarations discovery can meet: two labels, the same two in the
\* other order, a label declared twice, one label only, a placeholder field,
\* a value suffix
DiscoveryRaws ==
    { <<"a", ":", "1">>, <<"1", ":", "a">>, <<"a", ":", "a", ":", "1">>,
      <<"a", ":", "a">>, <<"a", ":", "-", ":", "1">>, <<"a", "=", "1", ":", "1">> }

\* names the switch attribute can have: a user attribute, a user attribute
\* named like a selected node, rotateOrder
AttrNames == {EnumAttr, "N2", "rotateOrder"}

\* the widget opened on a scene with nothing keyed, any selection
InitDiscovery ==
    /\ \E r1, r2 \in DiscoveryRaws, name \in AttrNames,
          kinds \in [Nodes -> AttrKinds], sel \in Selections :
          scene = [InitScene([n \in Nodes |-> <<{}, {}>>], <<"none", "N1">>, 1,
                             TRUE, <<r1, r2>>, FALSE)
                      EXCEPT !.attrName = name, !.attrKind = kinds,
                             !.selection = sel]
    /\ all_frames = FALSE
    /\ euler_filter = TRUE
    /\ \E show \in BOOLEAN : WidgetInit(scene, show)
    /\ pre = scene
    /\ pc = "idle"
    /\ ApplyParked
    /\ ClassifyParked
    /\ CleanParked
    /\ GimbalParked

NextDiscovery == \E newsel \in Selections : SelectionChanged(newsel)

SpecDiscovery == InitDiscovery /\ [][NextDiscovery]_vars

\* ------------------------------------------- GimbalAnalyzer.classify_percentages
RECURSIVE SeqMin(_)
SeqMin(p) == IF Len(p) = 1 THEN p[1]
             ELSE LET m == SeqMin(Tail(p)) IN IF p[1] <= m THEN p[1] ELSE m
RECURSIVE SeqMax(_)
SeqMax(p) == IF Len(p) = 1 THEN p[1]
             ELSE LET m == SeqMax(Tail(p)) IN IF p[1] >= m THEN p[1] ELSE m

classify_percentages_noguard(p) ==
    IF p = <<>> THEN <<>>
    ELSE LET best == SeqMin(p)
         IN [i \in 1..Len(p) |->
               LET diff == p[i] - best
               IN IF diff = 0 THEN "Best"
                  ELSE IF diff <= 2 THEN "Good"
                  ELSE IF diff <= 6 THEN "OK"
                  ELSE ""]

classify_percentages_max(p) ==
    IF p = <<>> \/ Cardinality(SeqToSet(p)) = 1 THEN [i \in 1..Len(p) |-> ""]
    ELSE LET best == SeqMax(p)
         IN [i \in 1..Len(p) |->
               LET diff == best - p[i]
               IN IF diff = 0 THEN "Best"
                  ELSE IF diff <= 2 THEN "Good"
                  ELSE IF diff <= 6 THEN "OK"
                  ELSE ""]

classify_percentages_strict(p) ==
    IF p = <<>> \/ Cardinality(SeqToSet(p)) = 1 THEN [i \in 1..Len(p) |-> ""]
    ELSE LET best == SeqMin(p)
         IN [i \in 1..Len(p) |->
               LET diff == p[i] - best
               IN IF diff = 0 THEN "Best"
                  ELSE IF diff < 2 THEN "Good"
                  ELSE IF diff < 6 THEN "OK"
                  ELSE ""]

\* classify_percentages: no label when the list is empty or all equal, else
\* best = min(percentages), diff = val - best, Best / Good / OK by diff
classify_percentages(p) ==
    IF p = <<>> \/ Cardinality(SeqToSet(p)) = 1 THEN [i \in 1..Len(p) |-> ""]
    ELSE LET best == SeqMin(p)
         IN [i \in 1..Len(p) |->
               LET diff == p[i] - best
               IN IF diff = 0 THEN "Best"
                  ELSE IF diff <= 2 THEN "Good"
                  ELSE IF diff <= 6 THEN "OK"
                  ELSE ""]

\* per-order percentages the analysis can hand to the classifier
Scores == {0, 1, 2, 3, 6, 7, 12, 40, 95, 100}
ScoreLists == UNION {[1..k -> Scores] : k \in 0..MaxOrders}

ParkedScene ==
    InitScene([n \in Nodes |-> <<{}, {}>>], <<"none", "N1">>, 1, FALSE,
              <<LabelA \o <<":">> \o LabelB, LabelA \o <<":">> \o LabelB>>, FALSE)

ParkedHost ==
    /\ scene = ParkedScene
    /\ pre = scene
    /\ all_frames = FALSE
    /\ euler_filter = TRUE
    /\ WidgetInit(scene, TRUE)
    /\ ApplyParked

InitClassify ==
    /\ percentages \in ScoreLists
    /\ labels = <<>>
    /\ pc = "classify"
    /\ ParkedHost
    /\ CleanParked
    /\ GimbalParked

Classify ==
    /\ pc = "classify"
    /\ labels' = classify_percentages(percentages)
    /\ pc' = "classified"
    /\ UNCHANGED <<hostVars, widgetVars, enum_attr, enum_value, targets, enum_index,
                   sorted_targets, timeline_selection, current_frames, keyframes,
                   temp_keyframes, dictionary_xforms, current_time, fi, ti, raised,
                   calls, pre, percentages, cleanVars, gimbalVars>>

NextClassify == Classify

SpecClassify == InitClassify /\ [][NextClassify]_vars

\* ------------------------------------- GimbalAnalyzer.compute_all_percentages
\* A rotation component is a whole number k of half degrees and stands for
\* the float math.radians(k / 2), as _rotation_at_time builds it; an angle in
\* degrees is held in tenths. The arithmetic is the exact one, with the
\* angles at which binary floating point departs from it listed in
\* FloatSlips.
Abs(v) == IF v < 0 THEN -v ELSE v
Deg(d) == 10 * d

\* radians * (180.0 / math.pi)
radians_to_degrees(radians) == 5 * radians

\* self.rotation_orders: the order names (character sequences, as the
\* fields of a declaration are) and the MEulerRotation order of each
rotation_orders ==
    (<<"x", "y", "z">> :> "xyz") @@ (<<"y", "z", "x">> :> "yzx") @@
    (<<"z", "x", "y">> :> "zxy") @@ (<<"x", "z", "y">> :> "xzy") @@
    (<<"y", "x", "z">> :> "yxz") @@ (<<"z", "y", "x">> :> "zyx")

\* self.rotation_orders.get(s, kZYX)
convert_order_string(s) ==
    IF s \in DOMAIN rotation_orders THEN rotation_orders[s] ELSE "zyx"

\* the axis that sits in the middle of the rotation's order
get_middle_axis_value(rotation) ==
    CASE rotation.order = "zxy" -> rotation.x
      [] rotation.order = "zyx" -> rotation.y
      [] rotation.order = "xzy" -> rotation.z
      [] rotation.order = "xyz" -> rotation.y
      [] rotation.order = "yzx" -> rotation.z
      [] rotation.order = "yxz" -> rotation.x

compute_gimbal_percentage_far(rotation) ==
    LET mid == radians_to_degrees(get_middle_axis_value(rotation))
    IN 100 - ((Abs(((mid + Deg(90)) % Deg(180)) - Deg(90)) * 100) \div Deg(90))

\* the angles this development covers: -720 to 720 degrees, in half degrees
AngleRange == -1440..1440

\* the angles k of AngleRange at which the formula of
\* compute_gimbal_percentage, evaluated in double precision on
\* math.radians(k / 2), comes out just below the whole number the exact
\* value is (-495, -477 and -459 degrees: 49.99.., 69.99.., 89.99..); at
\* every other angle of AngleRange the float result has the integer part of
\* the exact value
FloatSlips == {-990, -954, -918}

\* int(abs(((mid + 90) % 180) - 90) / 90 * 100): int() drops the fraction of
\* a value that is never negative, so a float result just below a whole
\* number gives the number below
compute_gimbal_percentage(rotation) ==
    LET r == get_middle_axis_value(rotation)
        mid == radians_to_degrees(r)
        exact == (Abs(((mid + Deg(90)) % Deg(180)) - Deg(90)) * 100) \div Deg(90)
    IN IF r \in FloatSlips THEN exact - 1 ELSE exact

track_worst_lowest(w, score) == IF score < w THEN score ELSE w

\* if g > worst: worst = g
track_worst(w, score) == IF score > w THEN score ELSE w

\* x, y, z (half degrees, of AngleRange) of the rotations reorderIt can hand
\* back; the last one has every component at an angle of FloatSlips
RotationTriples ==
    { t \in { <<0, 180, 91>>, <<91, 0, -180>>, <<350, 91, 0>>, <<-990, -954, -918>> } :
        \A i \in 1..3 : t[i] \in AngleRange }

\* get_rotation_order_list: the fields of the node's rotateOrder declaration
\* as the host lists them, or no order when the node has no such attribute
get_rotation_order_list(h, obj) ==
    IF h.attrName = "rotateOrder" THEN Split(EnumRaw(h, obj), ":") ELSE <<>>

\* the declaration every transform node has for rotateOrder
RotateOrderRaw ==
    <<"x", "y", "z", ":", "y", "z", "x", ":", "z", "x", "y", ":",
      "x", "z", "y", ":", "y", "x", "z", ":", "z", "y", "x">>

\* the node whose rotation orders are analysed
GimbalObj == "N1"

\* the rotateOrder values of the scenes analysed: the first order, and one
\* beyond the end of a two-field declaration
OrderValues == {0, 4}

\* scenes analysed: the nodes' rotateOrder, with the declaration of a
\* transform node or with two fields that name no rotation order, holds one
\* of OrderValues; the channels and rotateOrder are unkeyed or keyed at the
\* first k times. One more scene has nodes without rotateOrder.
GimbalScenes ==
    { [InitScene([n \in Nodes |-> <<ks, ks>>], <<"none", "N1">>, t0, TRUE,
                 <<decl, decl>>, FALSE)
          EXCEPT !.attrName = "rotateOrder",
                 !.attrKind = [n \in Nodes |-> "builtin"],
                 !.attrCur = [n \in Nodes |-> v],
                 !.attrKeys = [n \in Nodes |-> [k \in ks |-> v]]] :
        ks \in {1..k : k \in 0..MaxSamples}, t0 \in Times, v \in OrderValues,
        decl \in {RotateOrderRaw, LabelA \o <<":">> \o LabelB} }
    \cup {ParkedScene}

\* key_times: the sorted key times of the rotate channels, or the current time
key_times(h, obj) ==
    IF DOMAIN h.locKeys[obj] = {} THEN <<h.time>>
    ELSE SortedTimes(DOMAIN h.locKeys[obj])

rotation_at_time_seek(h, obj, t, orders) ==
    LET h2 == HostCurrentTime(h, t)
        idx == Max({0, Min({h2.attrCur[obj], Len(orders) - 1})})
    IN [host |-> h2, order |-> convert_order_string(orders[idx + 1])]

\* _rotation_at_time: the channels and rotateOrder are read with
\* getAttr(time=t); the host is handed back as it was
rotation_at_time(h, obj, t, orders) ==
    LET idx == Max({0, Min({AttrAt(h, obj, t), Len(orders) - 1})})
    IN [host |-> h, order |-> convert_order_string(orders[idx + 1])]

\* analyze: the order list is read from the node (line 800), and without
\* one the analysis returns at once (lines 801-802)
InitGimbal ==
    /\ scene \in GimbalScenes
    /\ order_list = get_rotation_order_list(scene, GimbalObj)
    /\ key_count = Len(key_times(scene, GimbalObj))
    /\ oi = 1 /\ ki = 1 /\ worst = 0 /\ seen = <<>> /\ g = 0
    /\ reordered = [x |-> 0, y |-> 0, z |-> 0, order |-> "xyz", from |-> "xyz"]
    /\ percentages = <<>> /\ labels = <<>>
    /\ pc = IF order_list = <<>> THEN "returned" ELSE "gimbal"
    /\ pre = scene
    /\ all_frames = FALSE
    /\ euler_filter = TRUE
    /\ WidgetInit(scene, TRUE)
    /\ ApplyParked
    /\ CleanParked

gimbalFrame == <<refresh_suspended, undo_chunk, widgetVars, enum_attr, enum_value, targets, enum_index,
                 sorted_targets, timeline_selection, current_frames, keyframes,
                 temp_keyframes, dictionary_xforms, current_time, fi, ti, raised,
                 calls, pre, cleanVars, order_list, key_count, labels>>

\* one pass of the inner loop (lines 765-771): the rotation at the next key
\* time, reordered to the target order by the host, is scored and the worst
\* case updated; after the last key time the order's score is appended
SampleStep(triple) ==
    /\ pc = "gimbal"
    /\ LET target_order == convert_order_string(order_list[oi])
           t == key_times(scene, GimbalObj)[ki]
           rot_t == rotation_at_time(scene, GimbalObj, t, order_list)
           rot == [x |-> triple[1], y |-> triple[2], z |-> triple[3],
                   order |-> target_order, from |-> rot_t.order]
           score == compute_gimbal_percentage(rot)
           w == track_worst(worst, score)
       IN /\ scene' = rot_t.host
          /\ reordered' = rot
          /\ g' = score
          /\ worst' = w
          /\ seen' = Append(seen, score)
          /\ IF ki = key_count
             THEN /\ percentages' = Append(percentages, w)
                  /\ pc' = "order_done"
                  /\ ki' = ki
             ELSE /\ percentages' = percentages
                  /\ pc' = "gimbal"
                  /\ ki' = ki + 1
    /\ UNCHANGED <<oi, gimbalFrame>>

\* the outer loop moves to the next order with worst = 0 (lines 761-763), or
\* analyze goes on to classify the percentages (line 802)
NextOrder ==
    /\ pc = "order_done"
    /\ IF oi = Len(order_list)
       THEN pc' = "classify" /\ UNCHANGED <<oi, ki, worst, seen>>
       ELSE /\ pc' = "gimbal"
            /\ oi' = oi + 1
            /\ ki' = 1 /\ worst' = 0 /\ seen' = <<>>
    /\ UNCHANGED <<scene, percentages, reordered, g, gimbalFrame>>

NextGimbal ==
    \/ \E triple \in RotationTriples : SampleStep(triple)
    \/ NextOrder
    \/ Classify

SpecGimbal == InitGimbal /\ [][NextGimbal]_vars

\* ------------------------------------------- label cleaning on its own
InitClean ==
    /\ raw \in RawStrings
    /\ cleaned = <<>>
    /\ recleaned = <<>>
    /\ pc = "clean"
    /\ ParkedHost
    /\ ClassifyParked
    /\ GimbalParked

cleanFrame == <<hostVars, widgetVars, enum_attr, enum_value, targets, enum_index,
                sorted_targets, timeline_selection, current_frames, keyframes,
                temp_keyframes, dictionary_xforms, current_time, fi, ti, raised,
                calls, pre, classifyVars, gimbalVars, raw>>

\* enum_values_raw = raw[0].split(":"), then the cleaning loop
CleanOnce ==
    /\ pc = "clean"
    /\ cleaned' = CleanLabels(Split(raw, ":"))
    /\ pc' = "cleaned"
    /\ UNCHANGED <<recleaned, cleanFrame>>

\* the cleaning loop run again on its own output
CleanAgain ==
    /\ pc = "cleaned"
    /\ recleaned' = CleanLabels(cleaned)
    /\ pc' = "recleaned"
    /\ UNCHANGED <<cleaned, cleanFrame>>

NextClean == CleanOnce \/ CleanAgain

SpecClean == InitClean /\ [][NextClean]_vars

\* ================================================================ claims
IsApplyCall(i) == calls[i].op = "apply"
IsCaptureCall(i) == calls[i].op = "capture"

\* C1: in a multi-time bake the planned times are strictly ascending, both
\* passes visit them in that order, every capture call precedes every apply
\* call, and when the first apply call starts the world matrix of every planned
\* (time, node) pair has been captured.
C1_BakeOrdering ==
    (keyframes.kind = "dict" /\ keyframes.order # <<>>) =>
        /\ \A i, j \in 1..Len(keyframes.order) :
              i < j => keyframes.order[i] < keyframes.order[j]
        /\ \A i, j \in 1..Len(dictionary_xforms.order) :
              i < j => dictionary_xforms.order[i] < dictionary_xforms.order[j]
        /\ \A i, j \in 1..Len(calls) :
              i < j => /\ calls[i].op = calls[j].op => calls[i].frame <= calls[j].frame
                       /\ IsApplyCall(i) => IsApplyCall(j)
        /\ (\E i \in 1..Len(calls) : IsApplyCall(i)) =>
              \A p \in {<<f, n>> \in Times \X Nodes :
                          f \in DOMAIN keyframes.at /\ n \in SeqToSet(keyframes.at[f])} :
                 \E i \in 1..Len(calls) :
                    /\ IsCaptureCall(i) /\ calls[i].ok
                    /\ calls[i].frame = p[1] /\ calls[i].node = p[2]

\* C1 witness: a completed bake over at least three times with both nodes planned
C1_Witness ==
    /\ pc = "done" /\ raised = "no" /\ keyframes.kind = "dict"
    /\ Len(keyframes.order) >= 3
    /\ \E f \in DOMAIN keyframes.at : Len(keyframes.at[f]) = 2
    /\ \E i \in 1..Len(calls) : IsApplyCall(i)

\* C2: after an all-frames apply of another label, without timeline interval,
\* that completed, at every time where a target's switch attribute was keyed
\* the attribute evaluates to the chosen enum index and the world matrix is
\* the one the scene had at that time before the apply.
C2_AllFramesSwitchKeepsPose ==
    (pc = "done" /\ raised = "no" /\ all_frames /\ ~timeline_selection) =>
        \A n \in SeqToSet(targets) : \A t \in DOMAIN pre.attrKeys[n] :
            pre.attrKeys[n][t] # enum_index =>
                /\ AttrAt(scene, n, t) = enum_index
                /\ WorldAt(scene, n, t) = WorldAt(pre, n, t)

\* C3: right after a do_xform that completed, the node's world matrix is the
\* matrix the call re-applied (in a single-time switch: the world matrix the
\* node had immediately before the call) and the switch attribute holds the new
\* enum value.
C3_XformPreservesWorld ==
    (calls # <<>> /\ Last(calls).op = "apply" /\ Last(calls).ok) =>
        LET c == Last(calls)
        IN /\ (pc \in {"single", "filter"} /\ keyframes.kind = "tuple") =>
                 /\ World(scene, c.node) = c.before
                 /\ scene.attrCur[c.node] = enum_index
           /\ (pc \in {"apply", "restore"}) =>
                 /\ World(scene, c.node) = c.xform[1]
                 /\ scene.attrCur[c.node] = enum_index

\* C3 witness: a single-time switch that changed the enum value of a node
C3_Witness ==
    /\ pc = "filter" /\ keyframes.kind = "tuple" /\ raised = "no"
    /\ Len(calls) = 4 /\ Last(calls).ok
    /\ pre.attrCur[Last(calls).node] # enum_index

\* C4: after an apply at the current time (no timeline interval, all-frames
\* off), a target whose switch attribute had no key still has no key, and,
\* the apply having completed, its value is the index at which the chosen
\* label is declared on that target.
C4_UnkeyedSwitchLeavesNoKey ==
    (pc = "done" /\ ~all_frames /\ ~timeline_selection) =>
        \A n \in SeqToSet(targets) :
            DOMAIN pre.attrKeys[n] = {} =>
                /\ DOMAIN scene.attrKeys[n] = {}
                /\ raised = "no" =>
                      scene.attrCur[n] = HostEnumIndex(pre, n, enum_value)

\* C7: whenever apply has returned, also after a raise inside the bake, the
\* host's current time is the one it was when apply began.
C7_TimeRestoredOnEveryExit ==
    pc = "done" => scene.time = pre.time

\* C8: a raise inside the capture or the apply pass ends the bake (no call
\* follows the failing one), and when an apply that got as far as its passes
\* returns, the viewport refresh is resumed and exactly the widget's four
\* listeners are registered.
C8_RestorationAfterRaise ==
    /\ \A i \in 1..(Len(calls) - 1) : calls[i].ok
    /\ raised \in {"xform", "setAttr"} => /\ pc \in {"finally", "done"}
                                         /\ ~Last(calls).ok
    /\ (pc = "done" /\ raised # "keyframe") => /\ ~refresh_suspended
                                               /\ cb_ids = AllEvents

\* C8 witness: a multi-time bake that raised part-way and has returned
C8_Witness ==
    /\ pc = "done" /\ raised \in {"xform", "setAttr"} /\ keyframes.kind = "dict"
    /\ Len(calls) >= 3
    /\ Len(dictionary_xforms.order) >= 1
    /\ Cardinality({i \in 1..Len(calls) : IsApplyCall(i) /\ calls[i].ok}) >= 1
    /\ Cardinality({i \in 1..Len(calls) : IsApplyCall(i)}) <
          Cardinality({<<f, n>> \in Times \X Nodes :
                          f \in DOMAIN keyframes.at /\ n \in SeqToSet(keyframes.at[f])})

NotAllEqual(p) == p # <<>> /\ Cardinality(SeqToSet(p)) > 1

\* C5 (as claimed): for scores that are not all identical, every order with
\* the maximum score is labelled "Best" and no order with a strictly lower
\* score is.
C5_MaxScoreIsBest ==
    (pc = "classified" /\ NotAllEqual(percentages)) =>
        \A i \in 1..Len(percentages) :
            /\ percentages[i] = SeqMax(percentages) => labels[i] = "Best"
            /\ percentages[i] < SeqMax(percentages) => labels[i] # "Best"

\* C5 (amended): for scores that are not all identical, every order with the
\* minimum score is labelled "Best" and no order with a strictly higher score
\* is.
C5_MinScoreIsBest ==
    (pc = "classified" /\ NotAllEqual(percentages)) =>
        \A i \in 1..Len(percentages) :
            /\ percentages[i] = SeqMin(percentages) => labels[i] = "Best"
            /\ percentages[i] > SeqMin(percentages) => labels[i] # "Best"

\* C5 witness: three different scores classified, exactly one of them "Best"
C5_Witness ==
    /\ pc = "classified" /\ Len(percentages) = 3
    /\ Cardinality(SeqToSet(percentages)) = 3
    /\ Cardinality({i \in 1..3 : labels[i] = "Best"}) = 1

TierOf(diff) ==
    IF diff = 0 THEN "Best"
    ELSE IF diff <= 2 THEN "Good"
    ELSE IF diff <= 6 THEN "OK"
    ELSE ""

\* C6 (as claimed): with best = the maximum score and diff = best - score the
\* label is Best / Good / OK / empty for diff = 0 / <= 2 / <= 6 / above, and
\* scores [40, 95, 12] yield ["", "Best", ""].
C6_TiersFromMaximum ==
    (pc = "classified" /\ NotAllEqual(percentages)) =>
        /\ \A i \in 1..Len(percentages) :
              labels[i] = TierOf(SeqMax(percentages) - percentages[i])
        /\ percentages = <<40, 95, 12>> => labels = <<"", "Best", "">>

\* C6 (amended): with best = the minimum score and diff = score - best the
\* label is Best / Good / OK / empty for diff = 0 / <= 2 / <= 6 / above, and
\* scores [40, 95, 12] yield ["", "", "Best"].
C6_TiersFromMinimum ==
    (pc = "classified" /\ NotAllEqual(percentages)) =>
        /\ Len(labels) = Len(percentages)
        /\ \A i \in 1..Len(percentages) :
              labels[i] = TierOf(percentages[i] - SeqMin(percentages))
        /\ percentages = <<40, 95, 12>> => labels = <<"", "", "Best">>

\* C6 witness: the worked example has been classified
C6_Witness ==
    /\ pc = "classified"
    /\ percentages = <<40, 95, 12>>
    /\ labels = <<"", "", "Best">>

\* C9: cleaning the cleaned label list again gives the same list.
C9_CleanIdempotent ==
    pc = "recleaned" => recleaned = cleaned

\* C9 witness: a raw enum string with a value suffix and padding was cleaned
\* to a non-empty list that differs from its raw split
C9_Witness ==
    /\ pc = "recleaned"
    /\ \E i \in 1..Len(raw) : raw[i] = "="
    /\ \E i \in 1..Len(raw) : raw[i] = " "
    /\ cleaned # <<>>
    /\ cleaned # Split(raw, ":")

\* C11: for every target of an apply, the value written to the node's switch
\* attribute is the index at which the chosen label is declared on that node.
C11_NodeOwnIndex ==
    \A i \in 1..Len(calls) :
        (IsApplyCall(i) /\ calls[i].ok) =>
            enum_index = HostEnumIndex(pre, calls[i].node, enum_value)

\* C12: every node the resolved time -> nodes plan lists at a time has a key
\* on its switch attribute at that time.
C12_PlanOnlySwitchKeys ==
    keyframes.kind = "dict" =>
        \A f \in DOMAIN keyframes.at : \A n \in SeqToSet(keyframes.at[f]) :
            f \in DOMAIN pre.attrKeys[n]

\* the distance, in tenths of a degree, of an angle to the nearest multiple
\* of 180 degrees
WrapDistance(mid) == Min({Abs(mid - k * Deg(180)) : k \in -4..4})

MidOf(rotation) == radians_to_degrees(get_middle_axis_value(rotation))

\* C13: the score of a rotation is
\* round(|((middle_deg + 90) mod 180) - 90| / 90 * 100), an integer of [0, 100].
C13_ScoreIsRounded ==
    seen # <<>> =>
        /\ g \in 0..100
        /\ 2 * Deg(90) * g - Deg(90) <= 2 * 100 * WrapDistance(MidOf(reordered))
        /\ 2 * 100 * WrapDistance(MidOf(reordered)) < 2 * Deg(90) * g + Deg(90)

\* C14 (as claimed): the score is 0 when the middle-axis angle is +90 or -90
\* degrees and 100 when it is 0 degrees.
C14_ZeroAtSingularity ==
    seen # <<>> =>
        /\ Abs(MidOf(reordered)) = Deg(90) => g = 0
        /\ MidOf(reordered) = 0 => g = 100

\* C14 (amended): the score is 100 when the middle-axis angle is +90 or -90
\* degrees and 0 when it is 0 degrees.
C14_HundredAtSingularity ==
    seen # <<>> =>
        /\ Abs(MidOf(reordered)) = Deg(90) => g = 100
        /\ MidOf(reordered) = 0 => g = 0

\* C14 witness: a rotation whose middle axis is at -90 degrees was scored
C14_Witness ==
    /\ seen # <<>>
    /\ MidOf(reordered) = - Deg(90)
    /\ g = 100

\* C15 (as claimed): the score recorded for an order is the minimum of the
\* per-time scores seen for it.
C15_RecordsMinimum ==
    pc = "order_done" => Last(percentages) = Min(SeqToSet(seen))

\* C15 (amended): the score recorded for an order is the maximum of the
\* per-time scores seen for it.
C15_RecordsMaximum ==
    pc = "order_done" =>
        /\ Len(seen) = key_count
        /\ Len(percentages) = oi
        /\ Last(percentages) = Max(SeqToSet(seen))

\* C15 witness: an order was scanned over several times with different
\* scores, the largest of them not at the last time
C15_Witness ==
    /\ pc = "order_done"
    /\ Len(seen) >= 2
    /\ seen[1] > Last(seen)
    /\ Last(percentages) = seen[1]

\* C16: while an apply runs, its targets are the current members of the group
\* that declare the chosen label, in the group's order, also after the targets
\* dialog changed the members.
C16_DispatchFollowsMembers ==
    pc \in {"capture", "apply", "restore", "single", "filter", "finally"} =>
        LET table == BuildOptions(spaceswitch_enum_dictionary)
        IN targets = IF enum_value \in DOMAIN table
                     THEN table[enum_value].objects ELSE <<>>

\* C17: when an apply has returned after a call failed on one target, every
\* other target of the apply has been processed by a call that completed.
C17_FailureSkipsOnlyThatNode ==
    (pc = "done" /\ raised \in {"xform", "setAttr"}) =>
        \A n \in SeqToSet(targets) \ {Last(calls).node} :
            \E i \in 1..Len(calls) :
                IsApplyCall(i) /\ calls[i].ok /\ calls[i].node = n

\* C18: a raise of the filter step does not leave apply: when apply has
\* returned in a scene whose filter raises, no error is pending.
C18_FilterFailureNotFatal ==
    (pc = "done" /\ scene.filterFails) => raised = "no"

\* C19: when apply has returned, no switch attribute holds a key at a time
\* recorded in temp_keyframes, and an attribute that had no key has none,
\* also when do_xform raised.
C19_TempKeysRemoved ==
    pc = "done" =>
        /\ \A p \in TempPairs(temp_keyframes) : p[2] \notin DOMAIN scene.attrKeys[p[1]]
        /\ \A n \in DOMAIN temp_keyframes : DOMAIN scene.attrKeys[n] = {}

\* C19 witness: the host left a temporary key on the first target, do_xform
\* raised on a later one, and apply has returned
C19_Witness ==
    /\ pc = "done" /\ raised \in {"xform", "setAttr"}
    /\ pre.tempKey
    /\ Len(calls) >= 3
    /\ calls[1].node \in DOMAIN temp_keyframes
    /\ calls[2].ok

\* C20: an empty plan under a timeline interval switches nothing; with
\* all-frames on, no interval and no key on any target, an apply that
\* completed has switched every target at the current time.
C20_EmptyPlanFallback ==
    /\ (keyframes.kind = "dict" /\ keyframes.order = <<>> /\ timeline_selection) =>
           /\ calls = <<>>
           /\ \A n \in Nodes : scene.attrCur[n] = pre.attrCur[n]
    /\ (pc = "done" /\ raised = "no" /\ all_frames /\ ~timeline_selection
           /\ keyframes.kind = "dict" /\ keyframes.order = <<>>) =>
           /\ \A n \in SeqToSet(targets) : scene.attrCur[n] = enum_index
           /\ \A i \in 1..Len(calls) : calls[i].frame = pre.time


\* C29: whenever apply_changes has returned, by whatever exit path (a host
\* query failing while the plan is resolved included), the undo chunk it
\* opened is closed, the viewport refresh is not suspended and the widget's
\* four listeners are registered.
C29_EveryExitReleases ==
    pc = "done" => /\ undo_chunk = 0
                   /\ ~refresh_suspended
                   /\ cb_ids = AllEvents


\* C26: when the classifier is given an empty list or a list whose scores are
\* all equal, it returns one label per score and every label is empty: no
\* order is nominated.
C26_NoNominationWhenAllEqual ==
    (pc = "classified" /\ ~NotAllEqual(percentages)) =>
        /\ Len(labels) = Len(percentages)
        /\ \A i \in 1..Len(labels) : labels[i] = ""

\* C26 witness: three equal scores have been classified
C26_Witness ==
    /\ pc = "classified"
    /\ Len(percentages) = 3
    /\ ~NotAllEqual(percentages)
    /\ Len(labels) = 3


\* C27: while and after the rotation orders of a node are analysed, the
\* host's current time, every key of the node's channels and of rotateOrder,
\* and the evaluated rotateOrder value are what they were before the analysis.
C27_AnalysisLeavesSceneAlone ==
    order_list # <<>> =>
        /\ scene.time = pre.time
        /\ scene.attrKeys = pre.attrKeys
        /\ scene.locKeys = pre.locKeys
        /\ scene.attrCur = pre.attrCur
        /\ scene.locCur = pre.locCur

\* C27 witness: an analysis over two key times, neither the current time,
\* has sampled every order and gone on to classification
C27_Witness ==
    /\ pc = "classified"
    /\ Len(percentages) = Len(order_list)
    /\ key_count >= 2
    /\ \A i \in 1..key_count : key_times(pre, GimbalObj)[i] # pre.time


\* a switch at one time: the plan is the current time, or an empty plan sent
\* to the fallback branch
SingleTime == keyframes.kind = "tuple" \/ keyframes.order = <<>>

\* C24 as stated: in a single-time switch every capture of a world matrix
\* precedes every change of a switch attribute (a capture pass over all
\* targets, then an apply pass).
C24_CaptureAllThenApply ==
    SingleTime =>
        \A i, j \in 1..Len(calls) :
            (i < j /\ IsApplyCall(i)) => IsApplyCall(j)

\* C24 amended: in a single-time switch the targets are handled one after
\* another: each change of a switch attribute comes right after the capture
\* of that same target's world matrix at the same time, and a capture that is
\* not the first comes right after the completed switch of another target.
C24_CaptureRightBeforeOwnSwitch ==
    SingleTime =>
        \A i \in 1..Len(calls) :
            /\ IsApplyCall(i) =>
                  /\ i > 1
                  /\ IsCaptureCall(i - 1) /\ calls[i - 1].ok
                  /\ calls[i - 1].node = calls[i].node
                  /\ calls[i - 1].frame = calls[i].frame
                  /\ calls[i - 1].xform = <<calls[i].before>>
            /\ (IsCaptureCall(i) /\ i > 1) =>
                  /\ IsApplyCall(i - 1) /\ calls[i - 1].ok
                  /\ calls[i - 1].node # calls[i].node

\* C24 witness: a single-time switch went through two targets, the second
\* captured after the first was switched
C24_Witness ==
    /\ SingleTime /\ pc = "filter"
    /\ Len(calls) = 4
    /\ IsCaptureCall(3) /\ IsApplyCall(2) /\ calls[2].ok
    /\ calls[3].node # calls[1].node
    /\ scene.attrCur[calls[1].node] = enum_index


\* C28: whatever applies, openings and closings of targets dialogs and
\* scene-opened events have happened, no host event has more than one
\* listener of the widget registered.
C28_AtMostOneListenerPerEvent ==
    \A e \in SeqToSet(AllEvents) :
        Cardinality({i \in DOMAIN cb_ids : cb_ids[i] = e}) <= 1


\* C21: every Undo event and every selection-change event that reaches the
\* widget's listeners with something selected leaves the switch model equal
\* to a discovery run on the scene as it is after the event, and the combobox
\* table built from it, also when the selected set is what it was.
C21_EventsRebuildModel ==
    [][ ( /\ (pc = "done" /\ pc' = "undone") \/ scene'.selection # scene.selection
          /\ cb_ids = AllEvents
          /\ scene'.selection # <<>> )
        => /\ spaceswitch_enum_dictionary' =
                 getEnums(scene', scene'.selection, show_rotate_order)
           /\ options_and_objects' =
                 BuildOptions(getEnums(scene', scene'.selection, show_rotate_order)) ]_vars

\* C25: when the switch attribute is rotateOrder, the plan of an apply is the
\* one _collect_keyframes gives with all-frames on, whatever the widget's
\* all-frames flag is.
C25_RotateOrderPlansAllFrames ==
    (enum_attr = "rotateOrder" /\ pc # "idle" /\ raised # "keyframe") =>
        keyframes = collect_keyframes(pre, targets, TRUE, timeline_selection,
                                      current_frames)

\* C25 witness: with the all-frames flag off and no timeline interval, a
\* rotateOrder switch was baked over the key times of its targets
C25_Witness ==
    /\ enum_attr = "rotateOrder" /\ pc = "done" /\ raised = "no"
    /\ ~all_frames /\ ~timeline_selection
    /\ keyframes.kind = "dict" /\ Len(keyframes.order) >= 2
    /\ \E k \in 1..Len(calls) : IsApplyCall(k) /\ calls[k].frame # pre.time


\* the discovered model was built from the selection the scene has now
Discovered == last_selection # <<>> /\ last_selection = scene.selection

\* C22: a selected node is a member of the discovered group exactly when its
\* attribute of the group's name is listed (user-authored, or rotateOrder
\* with rotation-order switching on), enum-typed, has at least two distinct
\* cleaned labels and is connected.
C22_MemberIffQualifies ==
    Discovered =>
        \A n \in SeqToSet(last_selection) :
            (n \in SeqToSet(spaceswitch_enum_dictionary.objects))
                <=> Qualifies(scene, n, show_rotate_order)

\* C23: the options list of every discovered member has at least two
\* entries, no label twice, and no label without an alphanumeric character.
C23_OptionsCleanAndDistinct ==
    Discovered =>
        \A n \in SeqToSet(spaceswitch_enum_dictionary.objects) :
            LET enum == spaceswitch_enum_dictionary.info[n].enum
            IN /\ Len(enum) >= 2
               /\ \A i, j \in 1..Len(enum) : i # j => enum[i] # enum[j]
               /\ \A i \in 1..Len(enum) : \E k \in 1..Len(enum[i]) : IsAlnum(enum[i][k])

Reverse(seq) == [i \in 1..Len(seq) |-> seq[Len(seq) + 1 - i]]

\* C30: discovery on the selection taken in the opposite order gives the
\* same members and, for each label, the same target nodes and enum index.
C30_OrderIndependent ==
    Discovered =>
        LET other == getEnums(scene, Reverse(last_selection), show_rotate_order)
            table == BuildOptions(other)
        IN /\ SeqToSet(other.objects) = SeqToSet(spaceswitch_enum_dictionary.objects)
           /\ DOMAIN table = DOMAIN options_and_objects
           /\ \A l \in DOMAIN table :
                 /\ SeqToSet(table[l].objects) = SeqToSet(options_and_objects[l].objects)
                 /\ table[l].index = options_and_objects[l].index

====
